---- MODULE Spec2Model ----
(***************************************************************************)
(* ThoughtSpotAPIClient.collect_security_logs (spellbook/thoughtspot.py)   *)
(* as a state machine: the async generator, the fetch tasks it creates     *)
(* with asyncio.create_task, the event loop's timers and the wall clock.   *)
(*                                                                         *)
(* Time is an absolute UTC instant counted in clock units; Day is the      *)
(* number of units in timedelta(days=1).  astimezone(utc) keeps the        *)
(* instant, so normalisation does not change a time.  `now` is the last    *)
(* reading of the clock; each dt.datetime.now() reads a value that is not  *)
(* before the previous one.  The 5 second timers of asyncio.wait and       *)
(* asyncio.sleep are far below one clock unit: they are timers of the      *)
(* event loop, which fire on their own (TimerFires).                       *)
(***************************************************************************)
EXTENDS Integers, Sequences, FiniteSets

VARIABLES
    arg_since,   \* the since argument
    arg_until,   \* the until argument, None when omitted
    now,         \* the last reading of dt.datetime.now(tz=utc)
    pc,          \* where the generator is suspended
    streaming,   \* local: streaming
    since,       \* local: since
    until,       \* local: until
    final,       \* local: final
    d,           \* local: d, the json of the last request built
    pending,     \* local: pending, a set of task ids
    tasks,       \* every task made by asyncio.create_task, by id
    b,           \* local: b, the merged buffer
    r_status,    \* r.status_code, 0 before r exists
    response,    \* local: response, the last task.result()
    doneq,       \* the part of `done` the for loop has not reached yet
    yielded,     \* what the consumer has received, in order
    processed,   \* ids of the tasks whose result() was called, in order
    timer,       \* the event loop timer of the current wait / sleep
    cancelled,   \* a CancelledError was thrown into the generator
    errored,     \* the except Exception branch ran
    closed,      \* the generator was closed at a yield (GeneratorExit)
    timed_out,   \* asyncio.wait has returned on its timeout, done empty
    lifetime,    \* request.state.lifetime: the attributes auth.py sets
    clients,     \* every ThoughtSpotAPIClient made by do_authorization, by id
    keep_alives, \* every is_active_check task made by create_task, by id
    requests,    \* every POST /login/auth and GET / received, by id
    environ,     \* os.environ: whether DEV is set, and HOST, USER, PASS with it
    spellbook,   \* lifetime.spellbook.spells: the registered spells, in order
    events,      \* every POST /is-spellbook-enabled-for received, by id
    spell        \* a RevealPrivilegedUsers spell, its user_cache and its fetch

vars == <<arg_since, arg_until, now, pc, streaming, since, until, final, d,
          pending, tasks, b, r_status, response, doneq, yielded, processed,
          timer, cancelled, errored, closed, timed_out,
          lifetime, clients, keep_alives, requests, environ, spellbook, events,
          spell>>

logvars == <<arg_since, arg_until, now, pc, streaming, since, until, final, d,
             pending, tasks, b, r_status, response, doneq, yielded, processed,
             timer, cancelled, errored, closed, timed_out>>

appvars == <<lifetime, clients, keep_alives, requests, environ, spellbook, events,
            spell>>

----------------------------------------------------------------------------
(* Bounds of the model *)
MaxSince == 1
MaxUntil == 6
MaxNow == 4
MaxTasks == 3
MaxStreamTasks == 4
MaxRequests == 2
MaxChecks == 3
MaxEvents == 2
MaxUsers == 25

(* Program constants *)
Day == 2
PARTIAL_CONTENT == 206
OK == 200

None == -1
NoD == [start_epoch_time_in_millis |-> None, end_epoch_time_in_millis |-> None]
NoResponse == [st |-> "none", body |-> <<>>, status_code |-> 0]

\* _utils.State() with none of api_session, api_keep_alive, current_page set
\* (active_spells is read by no handler before it is set: <<>> until then)
NoLifetime == [api_session |-> None, api_keep_alive |-> None,
               current_page |-> "unset", active_spells |-> <<>>]

\* spellbook.py lines 15-18: the registry holds UserManager, whose module
\* (spells/user/bulk_manager.py) and so whose ui_key is not in the source
\* tree; reveal_privileged_users.py line 12 sets "/admin:*"
UserManager(key) == [name |-> "UserManager", ui_key |-> key]
RevealPrivilegedUsers == [name |-> "RevealPrivilegedUsers", ui_key |-> "/admin:*"]

\* reveal_privileged_users.py lines 14-15 and the parameters of one call of
\* fetch_privileged_users: the platform holds the users named 1..users, in
\* NAME order, and api is or is not a name the module can resolve
NewSpell(users, api) ==
    [users |-> users, api |-> api, pc |-> "idle",
     user_cache |-> {}, offset |-> 0,
     offsets |-> <<>>,        \* record_offset of every request sent
     sizes |-> <<>>,          \* len(d) of every page received
     returned |-> {},         \* names of the users in the pages received
     r_status |-> None]

----------------------------------------------------------------------------
(* Helpers *)

\* the orders in which `for task in done` can walk the set done
Orderings(S) ==
    {q \in [1..Cardinality(S) -> S] : \A i, j \in 1..Cardinality(S) : q[i] = q[j] => i = j}

RECURSIVE InsertDescending(_, _)
InsertDescending(x, s) ==
    IF s = <<>> THEN <<x>>
    ELSE IF x > Head(s) THEN <<x>> \o s
    ELSE <<Head(s)>> \o InsertDescending(x, Tail(s))

RECURSIVE InsertAscending(_, _)
InsertAscending(x, s) ==
    IF s = <<>> THEN <<x>>
    ELSE IF x < Head(s) THEN <<x>> \o s
    ELSE <<Head(s)>> \o InsertAscending(x, Tail(s))

\* sorted(...) without reverse=True
RECURSIVE SortedByDate(_)
SortedByDate(s) ==
    IF s = <<>> THEN <<>> ELSE InsertAscending(Head(s), SortedByDate(Tail(s)))

\* sorted(response.json(), key=lambda log: log["date"], reverse=True);
\* a record is its date
RECURSIVE SortedByDateReverse(_)
SortedByDateReverse(s) ==
    IF s = <<>> THEN <<>> ELSE InsertDescending(Head(s), SortedByDateReverse(Tail(s)))

\* the request body d of one window
Request(s, u) == [start_epoch_time_in_millis |-> s, end_epoch_time_in_millis |-> u]

\* asyncio.create_task(self.post("api/rest/2.0/logs/fetch", json=d))
NewTask(req) == [start |-> req.start_epoch_time_in_millis,
                 end |-> req.end_epoch_time_in_millis,
                 st |-> "running", body |-> <<>>]

\* while until <= final
MoreWindows(u, fin) == u <= fin

\* the loop that collects the past log records: one task per 1-day window
RECURSIVE Backlog(_, _, _, _)
Backlog(s, u, fin, acc) ==
    IF MoreWindows(u, fin)
    THEN Backlog(u, u + Day, fin, Append(acc, NewTask(Request(s, u))))
    ELSE [since |-> s, until |-> u, tasks |-> acc]

\* a loop that stops while one task is still pending
WhilePendingSeveral(p) == Cardinality(p) > 1

\* while pending
WhilePending(p) == p # {}

\* b = logs, the buffer replaced
ExtendReplaces(bb, logs) == logs

\* the new records put in front of the buffer
ExtendInFront(bb, logs) == logs \o bb

\* b.extend(logs)
Extend(bb, logs) == bb \o logs

\* the response a finished task holds
ResponseOf(t) == [st |-> tasks[t].st, body |-> tasks[t].body, status_code |-> OK]

\* task.result() raises the exception of a failed fetch
Raises(t) == tasks[t].st = "raise"

\* response.json() raises on a body that is not JSON
Undecodable(resp) == resp.st = "undecodable"

Finished(t) == tasks[t].st # "running"

\* the bodies the server can return for a request: the log holds at most
\* one record per instant, a record is its date, and a body holds any of
\* the records of the first and the last instant of the window, in any order
Bodies(t) ==
    UNION {Orderings(S) : S \in SUBSET {tasks[t].start, tasks[t].end - 1}}

----------------------------------------------------------------------------
(* The generator: its locals as one record, and the code between two      *)
(* suspension points as functions from record to record                   *)

Cur == [pc |-> pc, streaming |-> streaming, since |-> since, until |-> until,
        final |-> final, d |-> d, pending |-> pending, tasks |-> tasks, b |-> b,
        r_status |-> r_status, response |-> response, doneq |-> doneq,
        yielded |-> yielded, processed |-> processed, timer |-> timer,
        cancelled |-> cancelled, errored |-> errored, closed |-> closed, now |-> now,
        timed_out |-> timed_out]

BecomeWithin(g, cap) ==
    \E v \in {g} :
        /\ Len(v.tasks) <= cap
        /\ pc' = v.pc /\ streaming' = v.streaming /\ since' = v.since
        /\ until' = v.until /\ final' = v.final /\ d' = v.d
        /\ pending' = v.pending /\ tasks' = v.tasks /\ b' = v.b
        /\ r_status' = v.r_status /\ response' = v.response /\ doneq' = v.doneq
        /\ yielded' = v.yielded /\ processed' = v.processed /\ timer' = v.timer
        /\ cancelled' = v.cancelled /\ errored' = v.errored /\ closed' = v.closed
        /\ now' = v.now /\ timed_out' = v.timed_out
        /\ UNCHANGED <<arg_since, arg_until>>
        /\ UNCHANGED appvars

Become(g) == BecomeWithin(g, MaxTasks)

\* a final response only when nothing went wrong
YieldsFinalUnlessErrored(g) == ~g.streaming /\ ~g.errored

\* if not streaming
YieldsFinal(g) == ~g.streaming

\* lines 142-146: the code after the try statement
PostTry(g) ==
    IF YieldsFinal(g)
    THEN [g EXCEPT !.r_status = OK,
                   !.yielded = Append(@, [st |-> "ok", body |-> g.b, status_code |-> OK]),
                   !.pc = "final", !.timer = "off"]
    ELSE [g EXCEPT !.pc = "done", !.timer = "off"]

\* the exception leaves the generator, to its consumer
OnExceptionReraises(g) == [g EXCEPT !.errored = TRUE, !.pc = "raised", !.timer = "off"]

\* except Exception: log.exception(...)
OnException(g) == PostTry([g EXCEPT !.errored = TRUE])

\* except asyncio.CancelledError: pass
OnCancelled(g) == PostTry([g EXCEPT !.cancelled = TRUE])

\* pending.add(asyncio.create_task(self.post(..., json=d)))
CreateTask(g, req) ==
    [g EXCEPT !.tasks = Append(@, NewTask(req)),
              !.pending = @ \cup {Len(g.tasks) + 1}]

\* while pending: done, pending = await asyncio.wait(..., timeout=5)
LoopHead(g) ==
    IF WhilePending(g.pending)
    THEN [g EXCEPT !.pc = "wait", !.timer = "armed"]
    ELSE PostTry(g)

\* a round that posts the new window twice
NextWindowPostsTwice(g, lifo, n) ==
    LET req == Request(lifo[1], n)
    IN CreateTask(CreateTask([g EXCEPT !.since = lifo[1], !.until = n,
                                       !.d = req, !.now = n], req), req)

\* lines 129-134 with the clock reading n
NextWindow(g, lifo, n) ==
    LET req == Request(lifo[1], n)
    IN CreateTask([g EXCEPT !.since = lifo[1], !.until = n, !.d = req, !.now = n], req)

\* an empty batch answered by posting d again at once, without the sleep
AfterRoundNoBackoff(g, n) ==
    IF Undecodable(g.response) THEN OnException(g)
    ELSE LET lifo_security_logs == SortedByDateReverse(g.response.body)
         IN IF lifo_security_logs = <<>>
            THEN LoopHead(CreateTask(g, g.d))
            ELSE LoopHead(NextWindow(g, lifo_security_logs, n))

\* lines 122-134: if streaming and done
AfterRound(g, n) ==
    IF Undecodable(g.response) THEN OnException(g)
    ELSE LET lifo_security_logs == SortedByDateReverse(g.response.body)
         IN IF lifo_security_logs = <<>>
            THEN [g EXCEPT !.pc = "sleep", !.timer = "armed"]
            ELSE LoopHead(NextWindow(g, lifo_security_logs, n))

\* line 134 after await asyncio.sleep(5): the request d is posted again
AfterSleep(g) == LoopHead(CreateTask(g, g.d))

\* a for loop that yields only the responses that hold records
ForLoopStreamingSkipsEmpty(g, n) ==
    IF g.doneq = <<>> THEN AfterRound(g, n)
    ELSE LET t == Head(g.doneq)
             g1 == [g EXCEPT !.doneq = Tail(@), !.processed = Append(@, t)]
         IN IF Raises(t) THEN OnException(g1)
            ELSE [g1 EXCEPT !.response = ResponseOf(t),
                            !.yielded = IF tasks[t].body = <<>> THEN @
                                        ELSE Append(@, ResponseOf(t)),
                            !.pc = "yield", !.timer = "off"]

\* lines 109-113 in streaming mode: the for loop up to its next yield
ForLoopStreaming(g, n) ==
    IF g.doneq = <<>> THEN AfterRound(g, n)
    ELSE LET t == Head(g.doneq)
             g1 == [g EXCEPT !.doneq = Tail(@), !.processed = Append(@, t)]
         IN IF Raises(t) THEN OnException(g1)
            ELSE [g1 EXCEPT !.response = ResponseOf(t),
                            !.yielded = Append(@, ResponseOf(t)),
                            !.pc = "yield", !.timer = "off"]

\* lines 109-120 in backfill mode: the whole for loop, which never suspends
RECURSIVE ForLoopBackfill(_)
ForLoopBackfill(g) ==
    IF g.doneq = <<>> THEN LoopHead(g)
    ELSE LET t == Head(g.doneq)
             g1 == [g EXCEPT !.doneq = Tail(@), !.processed = Append(@, t)]
             g2 == [g1 EXCEPT !.response = ResponseOf(t)]
         IN IF Raises(t) THEN OnException(g1)
            ELSE IF Undecodable(g2.response) THEN OnException(g2)
            ELSE IF g2.response.body # <<>>
                 THEN ForLoopBackfill([g2 EXCEPT !.b = Extend(@, g2.response.body)])
                 ELSE ForLoopBackfill(g2)

----------------------------------------------------------------------------
(* Actions *)

InitWith(env) ==
    /\ environ = env
    /\ arg_since \in 0..MaxSince
    /\ arg_until \in {None} \cup (0..MaxUntil)
    /\ now = 0
    /\ pc = "new"
    /\ streaming = FALSE /\ since = None /\ until = None /\ final = None
    /\ d = NoD /\ pending = {} /\ tasks = <<>> /\ b = <<>> /\ r_status = 0
    /\ response = NoResponse /\ doneq = <<>> /\ yielded = <<>>
    /\ processed = <<>> /\ timer = "off"
    /\ cancelled = FALSE /\ errored = FALSE /\ closed = FALSE
    /\ timed_out = FALSE
    /\ lifetime = NoLifetime /\ clients = <<>> /\ keep_alives = <<>>
    /\ requests = <<>> /\ events = <<>>

\* the application as deployed: DEV is not set
Init ==
    /\ InitWith("prod") /\ spellbook = <<UserManager("/admin:*")>>
    /\ spell = NewSpell(0, TRUE)

\* lines 75-107: the first __anext__() runs the generator to its first wait
StartWithin(cap) ==
    /\ pc = "new"
    /\ \E n \in now..MaxNow :
        LET isStreaming == arg_until = None
            fin == IF isStreaming THEN n ELSE arg_until
            bl == Backlog(arg_since, arg_since + Day, fin, <<>>)
            last == bl.tasks[Len(bl.tasks)]
        IN /\ isStreaming \/ n = now
           /\ BecomeWithin(LoopHead(
                [Cur EXCEPT !.streaming = isStreaming, !.final = fin,
                            !.now = n,
                            !.since = bl.since, !.until = bl.until,
                            !.tasks = bl.tasks, !.pending = 1..Len(bl.tasks),
                            !.d = IF bl.tasks = <<>> THEN NoD
                                  ELSE Request(last.start, last.end),
                            !.r_status = PARTIAL_CONTENT, !.b = <<>>]), cap)

Start == StartWithin(MaxTasks)

\* line 107: asyncio.wait returns the pending tasks that are done
WaitReturn ==
    /\ pc = "wait"
    /\ LET done == {t \in pending : Finished(t)}
       IN /\ done # {}
          /\ \E q \in Orderings(done) :
             \E g \in {[Cur EXCEPT !.doneq = q, !.pending = pending \ done]} :
               IF streaming
               THEN \E n \in now..MaxNow : Become(ForLoopStreaming(g, n))
               ELSE Become(ForLoopBackfill(g))

\* a timeout answered by posting d again
WaitTimeoutReissues ==
    /\ pc = "wait" /\ timer = "fired"
    /\ \A t \in pending : ~Finished(t)
    /\ Become(LoopHead(CreateTask([Cur EXCEPT !.timer = "off", !.timed_out = TRUE], d)))

\* line 107: asyncio.wait returns on its timeout, done is empty
WaitTimeout ==
    /\ pc = "wait" /\ timer = "fired"
    /\ \A t \in pending : ~Finished(t)
    /\ Become(LoopHead([Cur EXCEPT !.timer = "off", !.timed_out = TRUE]))

\* line 113: the consumer asks for the next item
ResumeYieldWithin(cap) ==
    /\ pc = "yield"
    /\ \E g \in {Cur} : \E n \in now..MaxNow :
          BecomeWithin(ForLoopStreaming(g, n), cap)

ResumeYield == ResumeYieldWithin(MaxTasks)

\* line 126: asyncio.sleep(5) returns
SleepReturnWithin(cap) ==
    /\ pc = "sleep" /\ timer = "fired"
    /\ BecomeWithin(AfterSleep(Cur), cap)

SleepReturn == SleepReturnWithin(MaxTasks)

\* line 146: the consumer asks for the item after the final response
FinalResume ==
    /\ pc = "final"
    /\ Become([Cur EXCEPT !.pc = "done"])

\* a CancelledError is thrown into the generator at an await
Cancel ==
    /\ pc \in {"wait", "sleep"}
    /\ Become(OnCancelled(Cur))

\* aclose() at a yield: GeneratorExit is no Exception and ends the generator
Close ==
    /\ pc \in {"yield", "final"}
    /\ Become([Cur EXCEPT !.pc = "done", !.closed = TRUE])

\* a fetch task ends: a response with a body, a transport error, or a
\* response whose body is not JSON
Complete(t) ==
    /\ t \in 1..Len(tasks)
    /\ tasks[t].st = "running"
    /\ \E st \in {"ok", "raise", "undecodable"} :
       \E body \in (IF st = "ok" THEN Bodies(t) ELSE {<<>>}) :
          tasks' = [tasks EXCEPT ![t].st = st, ![t].body = body]
    /\ UNCHANGED <<arg_since, arg_until, now, pc, streaming, since, until, final,
                   d, pending, b, r_status, response, doneq, yielded, processed,
                   timer, cancelled, errored, closed, timed_out>>
    /\ UNCHANGED appvars

CompleteSome == \E t \in 1..Len(tasks) : Complete(t)

\* the event loop timer of the current wait or sleep expires
TimerFires ==
    /\ timer = "armed"
    /\ timer' = "fired"
    /\ UNCHANGED <<arg_since, arg_until, now, pc, streaming, since, until, final,
                   d, pending, tasks, b, r_status, response, doneq, yielded,
                   processed, cancelled, errored, closed, timed_out>>
    /\ UNCHANGED appvars

Next ==
    \/ Start
    \/ WaitReturn
    \/ WaitTimeout
    \/ ResumeYield
    \/ SleepReturn
    \/ FinalResume
    \/ Cancel
    \/ Close
    \/ CompleteSome
    \/ TimerFires

Spec == Init /\ [][Next]_vars

\* Backfill runs alone, for the claims about what a backfill run comes to:
\* until is supplied, so the streaming steps never run.
BackfillInit == Init /\ arg_until # None

BackfillNext ==
    \/ Start
    \/ WaitReturn
    \/ WaitTimeout
    \/ FinalResume
    \/ Cancel
    \/ Close
    \/ CompleteSome
    \/ TimerFires

\* The event loop runs a generator that can go on, the consumer keeps asking
\* for the next item, and every fetch ends.
GeneratorStep == Start \/ WaitReturn \/ WaitTimeout \/ FinalResume

BackfillFair ==
    /\ BackfillInit /\ [][BackfillNext]_vars
    /\ WF_vars(GeneratorStep)
    /\ WF_vars(CompleteSome)

\* One streaming run from the earliest since, followed for MaxStreamTasks
\* fetches: two backlog windows and the fetches that continue both of them.
StreamInit == Init /\ arg_since = 0 /\ arg_until = None

StreamStart == StartWithin(MaxStreamTasks)
StreamResumeYield == ResumeYieldWithin(MaxStreamTasks)
StreamSleepReturn == SleepReturnWithin(MaxStreamTasks)

StreamNext ==
    \/ StreamStart
    \/ WaitReturn
    \/ WaitTimeout
    \/ StreamResumeYield
    \/ StreamSleepReturn
    \/ Cancel
    \/ Close
    \/ CompleteSome
    \/ TimerFires

StreamSpec == StreamInit /\ [][StreamNext]_vars

----------------------------------------------------------------------------
(* The login flow and the keep-alive task: routes/login.py login_auth,     *)
(* auth.py do_authorization, thoughtspot.py login and is_active_check.     *)
(* collect_security_logs is not started by the application (the call in    *)
(* do_authorization is commented out), so its variables stay as they are.  *)

Tokens == {"t1", "t2"}
NoToken == ""
Statuses == {200, 401, 503}
Outcomes == {"ok", "status_error", "transport_error"}

\* the value of the Authorization header, <<>> when the header is absent
NoAuth == <<>>
Bearer(token) == <<"Bearer", token>>

\* httpx.Response.is_success
IsSuccess(status) == status \in 200..299

\* a login that installs the header whatever the status
LoginHeadersAlways(headers, status, token) ==
    [headers EXCEPT !.Authorization = Bearer(token)]

\* thoughtspot.py lines 54-55
LoginHeaders(headers, status, token) ==
    IF IsSuccess(status)
    THEN [headers EXCEPT !.Authorization = Bearer(token)]
    ELSE headers

\* line 55: r.json()['token'] raises when a 2xx body holds no token
LoginRaises(status, token) == IsSuccess(status) /\ token = NoToken

\* a do_authorization that never raises
RaiseForStatusNever(status) == FALSE

\* auth.py line 53: r.raise_for_status()
RaiseForStatus(status) == ~IsSuccess(status)

\* ThoughtSpotAPIClient(...) at auth.py line 49, login not answered yet
NewClient == [login |-> "pending", status |-> 0, token |-> NoToken,
              headers |-> [Authorization |-> NoAuth]]

\* asyncio.create_task(api.is_active_check()): scheduled, not yet run
NewKeepAlive(api) ==
    [api |-> api, pc |-> "created", timer |-> "off", checks |-> 0,
     failures |-> 0, successes |-> 0, last |-> "none",
     auth_sent |-> NoAuth, cancelled_at |-> "none"]

\* a request received, before its handler has run
NewRequest(endpoint, api) ==
    [endpoint |-> endpoint, pc |-> "login", api |-> api, result |-> "none",
     toast |-> "none", invoked |-> FALSE]

\* __pre_main__.py lines 83-101: the wrapped homepage handler runs
HomePage(req) ==
    [req EXCEPT !.pc = "done", !.result = "page", !.invoked = TRUE,
                !.toast = "warning"]

\* auth.py lines 40-41: fh.RedirectResponse("/login", status_code=303)
RedirectLogin(req) == [req EXCEPT !.pc = "done", !.result = "redirect_login"]

\* auth.py line 38: getattr(request.state.lifetime, "api_session", False)
IsUserAuthorized(lt) == lt.api_session # None

\* a handler that awaits the keep-alive coroutine instead of spawning it
AuthorizedAwaitsKeepAlive(req) == [req EXCEPT !.pc = "keep_alive"]

\* auth.py line 63 returns at once; login.py lines 78-79, auth.py lines 35-43
Authorized(req) ==
    IF req.endpoint = "page" THEN HomePage(req)
    ELSE [req EXCEPT !.pc = "done", !.result = "hx-redirect"]

\* auth.py lines 54-60, then login.py lines 74-76 or auth.py lines 33-34
Rejected(req) ==
    IF req.endpoint = "page" THEN [RedirectLogin(req) EXCEPT !.toast = "error"]
    ELSE [req EXCEPT !.pc = "done", !.result = "AuthenticationForm",
                     !.toast = "error"]

\* an exception neither login_auth nor the is_authorized wrapper catches
Uncaught(req) == [req EXCEPT !.pc = "done", !.result = "error"]

\* the KeyError of r.json()['token']: the wrapper's except KeyError (auth.py
\* lines 30-32) catches it, login_auth does not
OnKeyError(req) ==
    IF req.endpoint = "page" THEN RedirectLogin(req) ELSE Uncaught(req)

\* line 39: except httpx.HTTPError catches HTTPStatusError and TransportError
Caught(outcome) == outcome \in {"status_error", "transport_error"}

\* the check's outcome, counted
Counted(ka, outcome) ==
    IF Caught(outcome)
    THEN [ka EXCEPT !.failures = @ + 1, !.last = "failed"]
    ELSE [ka EXCEPT !.successes = @ + 1, !.last = "ok"]

\* a loop that a failed check ends
KaStopsOnFailure(ka, outcome) ==
    IF Caught(outcome)
    THEN [Counted(ka, outcome) EXCEPT !.pc = "failed", !.timer = "off"]
    ELSE [Counted(ka, outcome) EXCEPT !.pc = "sleep", !.timer = "armed"]

\* thoughtspot.py lines 38-42: warn on httpx.HTTPError, then asyncio.sleep(60)
KaAfterCheck(ka, outcome) ==
    [Counted(ka, outcome) EXCEPT !.pc = "sleep", !.timer = "armed"]

\* a CancelledError that leaves the coroutine
KaCancelledSurfaces(ka) ==
    [ka EXCEPT !.pc = "cancelled", !.timer = "off", !.cancelled_at = ka.pc]

\* lines 44-45: except asyncio.CancelledError: pass.  A task cancelled
\* before its first step never enters the try and ends cancelled.
KaOnCancelled(ka) ==
    [ka EXCEPT !.pc = IF ka.pc = "created" THEN "cancelled" ELSE "done",
               !.timer = "off", !.cancelled_at = ka.pc]

\* line 37: self.get("callosum/v1/session/isactive") with the client's headers
KaGet(ka) ==
    [ka EXCEPT !.pc = "get", !.timer = "off", !.checks = @ + 1,
               !.auth_sent = clients[ka.api].headers.Authorization]

RECURSIVE SumChecks(_)
SumChecks(kas) == IF kas = <<>> THEN 0 ELSE Head(kas).checks + SumChecks(Tail(kas))

\* login.py lines 67-72, auth.py lines 49-50, thoughtspot.py lines 51-52:
\* the handler runs up to the POST of login()
PostLoginAuth ==
    /\ Len(requests) < MaxRequests
    /\ clients' = Append(clients, NewClient)
    /\ requests' = Append(requests, NewRequest("login_auth", Len(clients) + 1))
    /\ UNCHANGED <<lifetime, keep_alives>>
    /\ UNCHANGED <<logvars, environ, spellbook, events, spell>>

\* the POST of login() is answered: thoughtspot.py lines 54-57, auth.py
\* lines 52-64, login.py lines 74-79
LoginResponds(h, status, token) ==
    /\ h \in 1..Len(requests)
    /\ requests[h].pc = "login"
    /\ LET api == requests[h].api
       IN IF LoginRaises(status, token)
          THEN /\ clients' = [clients EXCEPT ![api].login = "raised",
                                             ![api].status = status]
               /\ requests' = [requests EXCEPT ![h] = OnKeyError(@)]
               /\ UNCHANGED <<lifetime, keep_alives>>
          ELSE /\ clients' = [clients EXCEPT
                     ![api].login = "returned", ![api].status = status,
                     ![api].token = token,
                     ![api].headers = LoginHeaders(@, status, token)]
               /\ IF RaiseForStatus(status)
                  THEN /\ requests' = [requests EXCEPT ![h] = Rejected(@)]
                       /\ UNCHANGED <<lifetime, keep_alives>>
                  ELSE /\ lifetime' = [lifetime EXCEPT
                                          !.api_session = api,
                                          !.api_keep_alive = Len(keep_alives) + 1,
                                          !.current_page = "/"]
                       /\ keep_alives' = Append(keep_alives, NewKeepAlive(api))
                       /\ requests' = [requests EXCEPT ![h] = Authorized(@)]
    /\ UNCHANGED <<logvars, environ, spellbook, events, spell>>

LoginAnswered ==
    \E h \in 1..Len(requests) : \E status \in Statuses :
        \E token \in (IF IsSuccess(status) THEN Tokens \cup {NoToken} ELSE {NoToken}) :
            LoginResponds(h, status, token)

\* the POST of login() raises a transport error: nothing catches it
LoginFails ==
    \E h \in 1..Len(requests) :
        /\ requests[h].pc = "login"
        /\ clients' = [clients EXCEPT ![requests[h].api].login = "raised"]
        /\ requests' = [requests EXCEPT ![h] = Uncaught(@)]
        /\ UNCHANGED <<lifetime, keep_alives>>
        /\ UNCHANGED <<logvars, environ, spellbook, events, spell>>

\* the event loop runs the task's first step: lines 34-37
KaStart ==
    \E k \in 1..Len(keep_alives) :
        /\ keep_alives[k].pc = "created"
        /\ SumChecks(keep_alives) < MaxChecks
        /\ keep_alives' = [keep_alives EXCEPT ![k] = KaGet(@)]
        /\ UNCHANGED <<lifetime, clients, requests>>
        /\ UNCHANGED <<logvars, environ, spellbook, events, spell>>

\* the GET is answered or fails: lines 37-42
KaResponds ==
    \E k \in 1..Len(keep_alives) : \E outcome \in Outcomes :
        /\ keep_alives[k].pc = "get"
        /\ keep_alives' = [keep_alives EXCEPT ![k] = KaAfterCheck(@, outcome)]
        /\ UNCHANGED <<lifetime, clients, requests>>
        /\ UNCHANGED <<logvars, environ, spellbook, events, spell>>

\* the 60 second timer of asyncio.sleep expires
KaTimerFires ==
    \E k \in 1..Len(keep_alives) :
        /\ keep_alives[k].pc = "sleep" /\ keep_alives[k].timer = "armed"
        /\ keep_alives' = [keep_alives EXCEPT ![k].timer = "fired"]
        /\ UNCHANGED <<lifetime, clients, requests>>
        /\ UNCHANGED <<logvars, environ, spellbook, events, spell>>

\* asyncio.sleep(60) returns and the loop makes its next GET: lines 42, 35-37
KaWake ==
    \E k \in 1..Len(keep_alives) :
        /\ keep_alives[k].pc = "sleep" /\ keep_alives[k].timer = "fired"
        /\ SumChecks(keep_alives) < MaxChecks
        /\ keep_alives' = [keep_alives EXCEPT ![k] = KaGet(@)]
        /\ UNCHANGED <<lifetime, clients, requests>>
        /\ UNCHANGED <<logvars, environ, spellbook, events, spell>>

\* Task.cancel() from outside (the event loop shutting down): lines 44-45
KaCancel ==
    \E k \in 1..Len(keep_alives) :
        /\ keep_alives[k].pc \in {"created", "get", "sleep"}
        /\ keep_alives' = [keep_alives EXCEPT ![k] = KaOnCancelled(@)]
        /\ UNCHANGED <<lifetime, clients, requests>>
        /\ UNCHANGED <<logvars, environ, spellbook, events, spell>>

\* GET / through the is_authorized wrapper: auth.py lines 19-43.  Without DEV
\* the wrapper decides on lifetime.api_session and never suspends; with DEV
\* it runs do_authorization up to the POST of login(), or redirects when one
\* of HOST, USER, PASS is missing (KeyError, lines 30-32).
GetPage ==
    /\ Len(requests) < MaxRequests
    /\ IF environ = "dev"
       THEN /\ clients' = Append(clients, NewClient)
            /\ requests' = Append(requests, NewRequest("page", Len(clients) + 1))
       ELSE /\ requests' = Append(requests,
                  IF environ = "prod" /\ IsUserAuthorized(lifetime)
                  THEN HomePage(NewRequest("page", None))
                  ELSE RedirectLogin(NewRequest("page", None)))
            /\ UNCHANGED clients
    /\ UNCHANGED <<lifetime, keep_alives>>
    /\ UNCHANGED <<logvars, environ, spellbook, events, spell>>

AppInit == Init /\ arg_since = 0 /\ arg_until = None

AppNext ==
    \/ PostLoginAuth
    \/ LoginAnswered
    \/ LoginFails
    \/ KaStart
    \/ KaResponds
    \/ KaTimerFires
    \/ KaWake
    \/ KaCancel

AppSpec == AppInit /\ [][AppNext]_vars

\* The login form and the protected page together, in each environment
Environs == {"prod", "dev", "dev_incomplete"}

PagesInit ==
    \E env \in Environs :
        /\ InitWith(env) /\ spellbook = <<UserManager("/admin:*")>>
        /\ spell = NewSpell(0, TRUE)
        /\ arg_since = 0 /\ arg_until = None

PagesNext ==
    \/ PostLoginAuth
    \/ GetPage
    \/ LoginAnswered
    \/ LoginFails
    \/ KaStart
    \/ KaResponds
    \/ KaTimerFires
    \/ KaWake
    \/ KaCancel

PagesSpec == PagesInit /\ [][PagesNext]_vars

----------------------------------------------------------------------------
(* The embed event handler: __pre_main__.py POST /is-spellbook-enabled-for *)
(* and spellbook.py Spellbook.lookup_spells                                *)

Absent == "absent"
EventTypes == {Absent, "ROUTE_CHANGE", "LOAD"}
Paths == {"/", "/admin"}
UiKeys == {"/admin:*", "/admin:LOAD", "/:ROUTE_CHANGE"}

\* the registries tried: UserManager under each key, alone or followed by
\* a second spell
Spellbooks ==
    {<<UserManager(k)>> : k \in UiKeys}
      \cup {<<UserManager(k), RevealPrivilegedUsers>> : k \in UiKeys}

\* a lookup that takes every event for one without a type
TypeOrDefaultIgnored(type) == "*"

\* spellbook.py line 27: data.get("type", "*")
TypeOrDefault(type) == IF type = Absent THEN "*" ELSE type

\* line 32: f"{path}:{type}"
UniqueKey(path, type) == path \o ":" \o type

\* lines 31-33: the for loop over self.spells
RECURSIVE ForSpells(_, _, _)
ForSpells(book, key, found) ==
    IF book = <<>> THEN found
    ELSE ForSpells(Tail(book), key,
                   IF Head(book).ui_key = key THEN Append(found, Head(book))
                   ELSE found)

\* spellbook.py lines 20-35
lookup_spells(book, current_page, type) ==
    ForSpells(book, UniqueKey(current_page, TypeOrDefault(type)), <<>>)

\* __pre_main__.py lines 115-124 once the body is read: the lifetime and
\* the answer.  data["data"]["currentPath"] raises KeyError when absent, and
\* lifetime.current_page raises AttributeError before it was ever set.
HandleEvent(lt, book, type, path) ==
    IF type = "ROUTE_CHANGE" /\ path = Absent
    THEN [lifetime |-> lt, result |-> "error"]
    ELSE LET lt1 == IF type = "ROUTE_CHANGE"
                    THEN [lt EXCEPT !.current_page = path] ELSE lt
         IN IF lt1.current_page = "unset"
            THEN [lifetime |-> lt1, result |-> "error"]
            ELSE LET spells == lookup_spells(book, lt1.current_page, type)
                 IN [lifetime |-> [lt1 EXCEPT !.active_spells = spells],
                     result |-> IF spells # <<>> THEN "has-available-spell"
                                ELSE "no-trigger"]

PostEvent ==
    /\ Len(events) < MaxEvents
    /\ \E type \in EventTypes : \E path \in Paths \cup {Absent} :
        \E out \in {HandleEvent(lifetime, spellbook, type, path)} :
          /\ type # "ROUTE_CHANGE" => path = Absent
          /\ lifetime' = out.lifetime
          /\ events' = Append(events, [type |-> type, path |-> path,
                                       result |-> out.result])
    /\ UNCHANGED <<clients, keep_alives, requests, environ, spellbook, spell>>
    /\ UNCHANGED logvars

EmbedInit ==
    /\ InitWith("prod") /\ spellbook \in Spellbooks
    /\ spell = NewSpell(0, TRUE)
    /\ arg_since = 0 /\ arg_until = None

EmbedNext ==
    \/ PostEvent
    \/ PostLoginAuth
    \/ LoginAnswered
    \/ LoginFails

EmbedSpec == EmbedInit /\ [][EmbedNext]_vars

----------------------------------------------------------------------------
(* Paging through the privileged users: reveal_privileged_users.py         *)
(* RevealPrivilegedUsers.fetch_privileged_users                            *)

\* line 20
limit == 20

\* the records the platform returns for record_offset and record_size
\* (thoughtspot.py lines 59-64 pass both on unchanged)
search_users(users, record_offset, record_size) ==
    LET left == IF users > record_offset THEN users - record_offset ELSE 0
    IN [i \in 1..(IF left < record_size THEN left ELSE record_size)
           |-> record_offset + i]

\* what set.add stores: a name, or a generator object, which hashes by
\* identity and so is a new element on every call
NameOf(user) == [kind |-> "name", value |-> user]
GeneratorObject(n) == [kind |-> "generator", value |-> n]

\* line 37: self.user_cache.add(user["name"] for user in d) adds the one
\* generator object, not the names it would produce
UserCacheAdd(user_cache, page, n) == user_cache \cup {GeneratorObject(n)}

\* lines 23-29: the next request leaves with the current offset
SendSearch(sp) ==
    [sp EXCEPT !.pc = "await", !.offsets = Append(@, sp.offset)]

\* lines 35-42 for a successful response with body page
AfterPage(sp, page) ==
    LET cache == UserCacheAdd(sp.user_cache, page, Len(sp.sizes) + 1)
        sp1 == [sp EXCEPT !.user_cache = cache,
                          !.sizes = Append(@, Len(page)),
                          !.returned = @ \cup {page[i] : i \in DOMAIN page}]
    IN IF Len(page) < limit
       THEN [sp1 EXCEPT !.pc = "done"]
       ELSE SendSearch([sp1 EXCEPT !.offset = Cardinality(cache)])

\* invoke, line 46, up to the first await: the name api is bound nowhere in
\* the module, so the call raises NameError unless something binds it
FetchStart ==
    /\ spell.pc = "idle"
    /\ spell' = IF spell.api THEN SendSearch(spell)
                ELSE [spell EXCEPT !.pc = "raised"]
    /\ UNCHANGED <<lifetime, clients, keep_alives, requests, environ,
                   spellbook, events>>
    /\ UNCHANGED logvars

\* lines 31-42: the response to the request in flight arrives
SearchResponds ==
    /\ spell.pc = "await"
    /\ \E status \in Statuses :
         \E sp \in {[spell EXCEPT !.r_status = status]} :
           spell' = IF ~IsSuccess(status) THEN [sp EXCEPT !.pc = "done"]
                    ELSE AfterPage(sp, search_users(sp.users, sp.offset, limit))
    /\ UNCHANGED <<lifetime, clients, keep_alives, requests, environ,
                   spellbook, events>>
    /\ UNCHANGED logvars

\* line 23: the post raises (no response); nothing in the loop catches it
SearchFails ==
    /\ spell.pc = "await"
    /\ spell' = [spell EXCEPT !.pc = "raised"]
    /\ UNCHANGED <<lifetime, clients, keep_alives, requests, environ,
                   spellbook, events>>
    /\ UNCHANGED logvars

UsersInit ==
    /\ InitWith("prod") /\ spellbook = <<UserManager("/admin:*")>>
    /\ arg_since = 0 /\ arg_until = None
    /\ \E users \in 0..MaxUsers : \E api \in BOOLEAN :
         spell = NewSpell(users, api)

UsersNext ==
    \/ FetchStart
    \/ SearchResponds
    \/ SearchFails

UsersSpec == UsersInit /\ [][UsersNext]_vars

----------------------------------------------------------------------------
(* Vocabulary of the claims *)

Backfill == arg_until # None
Started == pc # "new"
Undisturbed == ~cancelled /\ ~errored
Ended == pc \in {"final", "done"}

Min(x, y) == IF x < y THEN x ELSE y

Window(t) == <<tasks[t].start, tasks[t].end>>

RECURSIVE Concat(_)
Concat(q) == IF q = <<>> THEN <<>> ELSE tasks[Head(q)].body \o Concat(Tail(q))

Count(s, x) == Cardinality({i \in DOMAIN s : s[i] = x})

RECURSIVE CountAll(_, _)
CountAll(n, x) == IF n = 0 THEN 0 ELSE Count(tasks[n].body, x) + CountAll(n - 1, x)

AllProcessed == \A t \in 1..Len(tasks) : \E i \in DOMAIN processed : processed[i] = t

MaxOf(s) == CHOOSE x \in {s[i] : i \in DOMAIN s} : \A i \in DOMAIN s : s[i] <= x

----------------------------------------------------------------------------
(* C1: in backfill mode one fetch is scheduled per consecutive 1-day       *)
(* window from since, the last one truncated to end at until, so that the  *)
(* scheduled windows are exactly a partition of [since, until).            *)
C1_WindowsCoverRange ==
    (Backfill /\ Started) =>
        /\ {Window(t) : t \in 1..Len(tasks)} =
             {<<s, Min(s + Day, arg_until)>> :
                 s \in {x \in arg_since..(arg_until - 1) : (x - arg_since) % Day = 0}}
        /\ \A t, u \in 1..Len(tasks) : Window(t) = Window(u) => t = u

(* C2: in backfill mode with no cancellation and no error, exactly one     *)
(* response is eventually yielded, with status 200, and only once the      *)
(* pending set is empty and every scheduled fetch has been processed;      *)
(* nothing is yielded before it or after it.                               *)
C2_BackfillYieldsOnce ==
    /\ []((Backfill /\ Undisturbed) =>
            /\ Len(yielded) <= 1
            /\ yielded # <<>> =>
                 /\ yielded[1].status_code = 200
                 /\ pending = {}
                 /\ AllProcessed
                 /\ Ended
            /\ pc = "done" => Len(yielded) = 1)
    /\ (Backfill ~> (cancelled \/ errored \/ (Ended /\ Len(yielded) = 1)))

C2_Witness ==
    /\ Backfill /\ Undisturbed /\ pc = "done"
    /\ Len(tasks) >= 2 /\ Len(yielded) = 1 /\ yielded[1].status_code = 200

(* C3: in backfill mode the body of the final merged response holds every  *)
(* record of every window's response exactly once and nothing else; an     *)
(* empty body adds nothing and does not shorten the collection.            *)
C3_MergedBodyHoldsEveryRecordOnce ==
    (Backfill /\ Undisturbed /\ Ended) =>
        /\ Len(yielded[1].body) = Len(Concat([i \in 1..Len(tasks) |-> i]))
        /\ \A x \in 0..(MaxUntil + Day) :
              Count(yielded[1].body, x) = CountAll(Len(tasks), x)

C3_Witness ==
    /\ Backfill /\ Undisturbed /\ Ended /\ Len(tasks) = 3
    /\ Len(tasks[1].body) = 2 /\ tasks[2].body = <<>> /\ Len(tasks[3].body) = 1
    /\ Len(yielded[1].body) = 3

(* C4, as claimed: the records of the final merged response are in the     *)
(* chronological order of their windows, whatever the completion order.    *)
C4_ChronologicalOrder ==
    (Backfill /\ Undisturbed /\ Ended) =>
        \A i, j \in DOMAIN yielded[1].body :
            i < j => (yielded[1].body[i] - arg_since) \div Day
                       <= (yielded[1].body[j] - arg_since) \div Day

(* C4, amended: the records of the final merged response are in the order  *)
(* in which the loop processed the completed fetches, the records of one   *)
(* response together and in that response's order.                         *)
C4_CompletionOrder ==
    (Backfill /\ Undisturbed /\ Ended) => yielded[1].body = Concat(processed)

C4_Witness ==
    /\ Backfill /\ Undisturbed /\ Ended
    /\ Len(processed) >= 2 /\ processed[1] > processed[2]
    /\ tasks[processed[1]].body # <<>> /\ tasks[processed[2]].body # <<>>

(* C5: once the generator has been cancelled it yields nothing more: no     *)
(* further batch in streaming mode, no final merged response in backfill   *)
(* mode.                                                                   *)
C5_CancelledYieldsNothingMore == [][cancelled' => yielded' = yielded]_vars

(* C6, as claimed: in backfill mode, after a fetch raised an unexpected    *)
(* exception nothing is yielded, the generator ends without a final        *)
(* response.                                                               *)
C6_ErrorYieldsNothing == (Backfill /\ errored) => yielded = <<>>

(* C6, amended: in backfill mode, after a fetch raised an unexpected        *)
(* exception the generator still yields one final response, with status    *)
(* 200, whose body holds the records of the fetches processed before the   *)
(* exception.                                                              *)
C6_ErrorYieldsAccumulated ==
    (Backfill /\ errored) =>
        /\ Ended /\ Len(yielded) = 1
        /\ yielded[1].status_code = 200
        /\ yielded[1].body = Concat(processed)

C6_Witness ==
    /\ Backfill /\ errored /\ Len(processed) >= 2
    /\ Len(yielded) = 1 /\ yielded[1].body # <<>>
    /\ \E t \in pending : ~Finished(t)

(* C7: after a cancelled generator has exited, none of the fetch tasks it  *)
(* created is still running or left with its result never retrieved.       *)
C7_NoTaskLeftAfterCancel ==
    (cancelled /\ pc = "done") =>
        \A t \in 1..Len(tasks) :
            Finished(t) /\ \E i \in DOMAIN processed : processed[i] = t

(* C8: in streaming mode, absent cancellation and fetch errors, the         *)
(* generator never finishes on its own, whatever since is.                 *)
C8_StreamingNeverFinishes ==
    (~Backfill /\ Started /\ Undisturbed /\ ~closed) => pc # "done"

(* C9: the in-flight fetches of the pending set cover pairwise             *)
(* non-overlapping windows, and no window has two outstanding fetches.     *)
C9_PendingWindowsDisjoint ==
    \A t, u \in pending :
        (t # u /\ ~Finished(t) /\ ~Finished(u)) =>
            (tasks[t].end <= tasks[u].start \/ tasks[u].end <= tasks[t].start)

(* C10: in streaming mode, the fetch issued after a completion round whose *)
(* batch holds records starts at the greatest date of that batch and ends  *)
(* at the clock reading taken when the window is computed.                 *)
C10_NextWindowFromNewestRecord ==
    [][(pc = "yield" /\ Len(tasks') > Len(tasks)) =>
          /\ response.body # <<>>
          /\ tasks'[Len(tasks')].start = MaxOf(response.body)
          /\ tasks'[Len(tasks')].end = now'
          /\ since' = MaxOf(response.body) /\ until' = now']_vars

C10_Witness ==
    /\ ~Backfill /\ pc = "wait" /\ Len(response.body) = 2
    /\ response.body[1] < response.body[2]
    /\ Len(processed) < Len(tasks)
    /\ tasks[Len(tasks)].start = response.body[2]
    /\ tasks[Len(tasks)].end = now /\ now > final

Streaming == ~Backfill /\ Started

Range(q) == {q[i] : i \in DOMAIN q}

\* the number of windows of the initial backlog of a streaming run
BacklogSize == IF final >= arg_since THEN (final - arg_since) \div Day ELSE 0

(* C11: in streaming mode every response of a fetch that completed without *)
(* an exception is yielded, empty batches included, none is dropped, and   *)
(* the responses are yielded in the order in which the loop took the       *)
(* completed fetches, not in the order of their windows.                   *)
C11_EveryResponseYieldedInCompletionOrder ==
    (Streaming /\ Undisturbed /\ ~closed) =>
        /\ Len(yielded) = Len(processed)
        /\ \A i \in DOMAIN yielded : yielded[i] = ResponseOf(processed[i])
        /\ \A t \in 1..Len(tasks) :
              Finished(t) => t \in pending \cup Range(doneq) \cup Range(processed)

C11_Witness ==
    /\ Streaming /\ Undisturbed /\ ~closed
    /\ Len(yielded) = 2 /\ processed[1] > processed[2]
    /\ yielded[1].st = "ok" /\ yielded[1].body = <<>> /\ yielded[2].body # <<>>

(* C12: in streaming mode, after a completion round that brought no record *)
(* the generator sleeps, issues no fetch while it sleeps, and issues the   *)
(* next fetch only once the 5 second timer of the sleep has expired.       *)
C12_EmptyRoundBacksOff ==
    [][/\ (Streaming /\ pc = "yield" /\ doneq = <<>>
             /\ response.st = "ok" /\ response.body = <<>>) =>
            (Len(tasks') = Len(tasks) /\ pc' \in {"yield", "sleep", "done"}
               /\ (pc' = "sleep" => timer' = "armed"))
       /\ (pc = "sleep" /\ Len(tasks') > Len(tasks)) => timer = "fired"
       /\ (pc = "sleep" /\ timer = "armed") => Len(tasks') = Len(tasks)]_vars

C12_Witness ==
    /\ Streaming /\ Undisturbed /\ pc = "wait"
    /\ response.st = "ok" /\ response.body = <<>>
    /\ Len(tasks) > BacklogSize /\ ~Finished(Len(tasks))

(* C16: an exception raised by a log fetch during the collection loop is   *)
(* never raised to the consumer: the generator ends, and in streaming mode *)
(* no batch is yielded once the failing fetch has been processed.          *)
C16_FetchErrorEndsTheStreamSilently ==
    /\ [](errored => Ended)
    /\ [][(~Backfill /\ errored') => yielded' = yielded]_vars

C16_Witness ==
    /\ Streaming /\ errored /\ pc = "done" /\ Len(yielded) >= 1
    /\ Raises(processed[Len(processed)])
    /\ \E t \in pending : Finished(t) /\ ~Raises(t)

(* C17: when asyncio.wait returns on its 5 second timeout with no fetch    *)
(* completed, the pending set and its tasks are as before, nothing is      *)
(* yielded or merged, and the loop waits again.                            *)
C17_TimeoutLeavesPendingUnchanged ==
    [][(pc = "wait" /\ timer = "fired" /\ (\A t \in pending : ~Finished(t))
          /\ timer' = "armed") =>
         (/\ pending' = pending /\ tasks' = tasks /\ yielded' = yielded
          /\ b' = b /\ processed' = processed /\ d' = d /\ pc' = "wait")]_vars

C17_Witness ==
    /\ timed_out /\ pc = "wait" /\ Cardinality(pending) >= 2
    /\ \A t \in pending : ~Finished(t)
    /\ Undisturbed

(* C20: in streaming mode every fetch issued after the initial backlog,    *)
(* including the one issued again after an empty batch, ends at the        *)
(* current time when it is issued.                                         *)
C20_IssuedWindowEndsNow ==
    [][(Streaming /\ Len(tasks') > Len(tasks)) =>
          tasks'[Len(tasks')].end = now']_vars

(* C22: in streaming mode the fetches issued after the backlog have start *)
(* times that never decrease: each one starts no earlier than the one      *)
(* issued before it, in whatever order the backlog windows complete.       *)
C22_ContinuationStartsNeverDecrease ==
    [][(Streaming /\ Len(tasks') > Len(tasks) /\ Len(tasks) > BacklogSize) =>
          tasks'[Len(tasks')].start >= tasks[Len(tasks)].start]_vars

(* C23: in a streaming run with K backlog windows at most K fetches are    *)
(* pending at any time, the generator waits only on a non-empty pending    *)
(* set, and a round of completed fetches that ends without an exception,   *)
(* a cancellation or a close adds exactly one fetch, at its end (after the *)
(* sleep when the last batch was empty), however many fetches it took.     *)
C23_OneNewFetchPerRound ==
    /\ [](Streaming => Cardinality(pending) <= BacklogSize)
    /\ [](pc = "wait" => pending # {})
    /\ [][Streaming =>
            /\ Len(tasks') <= Len(tasks) + 1
            /\ Len(tasks') = Len(tasks) + 1 =>
                  /\ (pc = "yield" /\ doneq = <<>>) \/ pc = "sleep"
                  /\ pending' = pending \cup {Len(tasks')}
            /\ (pc = "yield" /\ doneq = <<>> /\ pc' # "yield" /\ ~closed' /\ ~errored') =>
                  \/ Len(tasks') = Len(tasks) + 1 /\ pc' = "wait"
                  \/ tasks' = tasks /\ pc' = "sleep"
            /\ (pc = "sleep" /\ pc' # "sleep" /\ ~cancelled') =>
                  Len(tasks') = Len(tasks) + 1 /\ pc' = "wait"
            /\ (pc = "wait" /\ pc' = "yield") => tasks' = tasks]_vars

C23_Witness ==
    /\ Streaming /\ Undisturbed /\ ~closed /\ BacklogSize = 2
    /\ pc = "wait" /\ Len(processed) = 2 /\ Len(tasks) = 3 /\ pending = {3}

----------------------------------------------------------------------------
(* Claims about login and the keep-alive task, under AppSpec *)

KeepAlives == 1..Len(keep_alives)
Requests == 1..Len(requests)
Running(ka) == ka.pc \in {"created", "get", "sleep"}
ClientOf(h) == clients[requests[h].api]

(* C13: a keep-alive loop that nobody cancelled is still running whatever  *)
(* the outcomes of its checks were: after N failed checks and a successful *)
(* one it has made at least N+1 checks, every check but the first starts   *)
(* only when the 60 second timer of the sleep that follows the previous    *)
(* check has expired, and that sleep follows a failed check as it follows  *)
(* a successful one.                                                       *)
C13_KeepAliveSurvivesFailures ==
    /\ [](\A k \in KeepAlives :
            LET ka == keep_alives[k]
            IN ka.cancelled_at = "none" =>
                 /\ Running(ka)
                 /\ ka.checks = ka.failures + ka.successes
                                  + (IF ka.pc = "get" THEN 1 ELSE 0)
                 /\ ka.last = "ok" => ka.checks >= ka.failures + 1)
    /\ [][\A k \in KeepAlives :
            /\ keep_alives'[k].checks > keep_alives[k].checks =>
                  \/ keep_alives[k].checks = 0
                  \/ keep_alives[k].pc = "sleep" /\ keep_alives[k].timer = "fired"
            /\ (keep_alives[k].pc = "get" /\ keep_alives'[k] # keep_alives[k]
                  /\ keep_alives'[k].cancelled_at = "none") =>
                  keep_alives'[k].pc = "sleep" /\ keep_alives'[k].timer = "armed"]_vars

C13_Witness ==
    \E k \in KeepAlives :
        /\ keep_alives[k].failures = 2 /\ keep_alives[k].successes = 1
        /\ keep_alives[k].last = "ok" /\ keep_alives[k].pc = "sleep"
        /\ keep_alives[k].cancelled_at = "none"

(* C14: a keep-alive task that has ended was cancelled from outside, and a *)
(* task cancelled while it awaited the GET or the sleep has finished       *)
(* normally: no failed check ends it and no CancelledError leaves it.      *)
C14_OnlyCancellationEnds ==
    \A k \in KeepAlives :
        LET ka == keep_alives[k]
        IN /\ ~Running(ka) => ka.cancelled_at # "none"
           /\ ka.cancelled_at \in {"get", "sleep"} => ka.pc = "done"

C14_Witness ==
    \E k1, k2 \in KeepAlives :
        /\ keep_alives[k1].cancelled_at = "get" /\ keep_alives[k1].pc = "done"
        /\ keep_alives[k1].failures >= 1
        /\ keep_alives[k2].cancelled_at = "sleep" /\ keep_alives[k2].pc = "done"

(* C15: after login() got a 2xx response with a token the client's         *)
(* Authorization header is Bearer <that token> and the requests the client *)
(* makes afterwards carry it; after a non-2xx response the headers are     *)
(* what they were, with no Authorization header; login() raises in neither *)
(* case.                                                                   *)
C15_LoginInstallsBearerToken ==
    /\ \A c \in 1..Len(clients) :
          LET cl == clients[c]
          IN /\ (cl.login = "returned" /\ IsSuccess(cl.status)) =>
                   cl.token \in Tokens /\ cl.headers.Authorization = Bearer(cl.token)
             /\ (cl.status # 0 /\ ~IsSuccess(cl.status)) =>
                   cl.login = "returned" /\ cl.headers = NewClient.headers
             /\ (cl.login = "raised" /\ cl.status # 0) =>
                   IsSuccess(cl.status) /\ cl.token = NoToken
    /\ \A k \in KeepAlives :
          keep_alives[k].checks > 0 =>
             /\ clients[keep_alives[k].api].token \in Tokens
             /\ keep_alives[k].auth_sent = Bearer(clients[keep_alives[k].api].token)

C15_Witness ==
    \E c1, c2 \in 1..Len(clients) : \E k \in KeepAlives :
        /\ clients[c1].login = "returned" /\ IsSuccess(clients[c1].status)
        /\ keep_alives[k].api = c1 /\ keep_alives[k].checks >= 2
        /\ clients[c2].login = "returned" /\ ~IsSuccess(clients[c2].status)

(* C18: when the login response is not 2xx, do_authorization raises: the   *)
(* client is not installed as api_session, no keep-alive task is made for  *)
(* it, lifetime (current_page included) is left as it was, and login_auth  *)
(* answers with the authentication form.                                   *)
C18_FailedLoginShowsFormAgain ==
    /\ [](\A h \in Requests :
            (ClientOf(h).status # 0 /\ ~IsSuccess(ClientOf(h).status)) =>
               /\ requests[h].result = "AuthenticationForm"
               /\ lifetime.api_session # requests[h].api
               /\ \A k \in KeepAlives : keep_alives[k].api # requests[h].api)
    /\ [][\A h \in Requests :
            (requests[h].pc = "login" /\ requests'[h].pc = "done"
               /\ ~IsSuccess(clients'[requests[h].api].status)
               /\ clients'[requests[h].api].status # 0) =>
               /\ lifetime' = lifetime /\ keep_alives' = keep_alives
               /\ requests'[h].result = "AuthenticationForm"]_vars

C18_Witness ==
    \E h \in Requests :
        /\ requests[h].result = "AuthenticationForm"
        /\ lifetime.api_session \notin {None, requests[h].api}
        /\ lifetime.current_page = "/"

(* C19: the handler that spawns the keep-alive task never waits for it:    *)
(* the step that installs the session creates the task, not yet run, and   *)
(* ends the request with the redirect, and no request is ever suspended on *)
(* anything but the login call; other requests are handled while the loop  *)
(* sleeps.                                                                 *)
C19_KeepAliveNeverBlocksCaller ==
    /\ [](\A h \in Requests : requests[h].pc \in {"login", "done"})
    /\ [][\A h \in Requests :
            (requests[h].pc = "login"
               /\ clients'[requests[h].api].login = "returned"
               /\ IsSuccess(clients'[requests[h].api].status)) =>
               /\ requests'[h].pc = "done" /\ requests'[h].result = "hx-redirect"
               /\ Len(keep_alives') = Len(keep_alives) + 1
               /\ keep_alives'[Len(keep_alives')] = NewKeepAlive(requests[h].api)]_vars

C19_Witness ==
    \E h1, h2 \in Requests : \E k \in KeepAlives :
        /\ requests[h1].result = "hx-redirect" /\ keep_alives[k].api = requests[h1].api
        /\ keep_alives[k].pc = "sleep" /\ keep_alives[k].checks >= 1
        /\ h2 > h1 /\ requests[h2].pc = "login"

SessionInstalled ==
    /\ lifetime.api_session # None
    /\ clients[lifetime.api_session].login = "returned"
    /\ IsSuccess(clients[lifetime.api_session].status)

(* C21: at most one keep-alive task is running at any time: a task that is *)
(* no longer the one in lifetime.api_keep_alive has been cancelled.        *)
C21_AtMostOneKeepAlive ==
    /\ Cardinality({k \in KeepAlives : Running(keep_alives[k])}) <= 1
    /\ \A k \in KeepAlives :
          k # lifetime.api_keep_alive => keep_alives[k].cancelled_at # "none"

(* C24: the wrapped page handler has run only where an api_session was     *)
(* installed by a successful login, and every request for the page that    *)
(* ended without the handler running was answered with the 303 redirect to *)
(* /login.                                                                 *)
C24_PageOnlyWithSession ==
    \A h \in Requests :
        (requests[h].endpoint = "page" /\ requests[h].pc = "done") =>
           /\ requests[h].invoked => SessionInstalled
           /\ ~requests[h].invoked => requests[h].result = "redirect_login"

----------------------------------------------------------------------------
(* Claims about the embed events, under EmbedSpec *)

Handled(e) == e.result # "error"
LastEvent == events[Len(events)]

(* C25: when an embed event has been handled, current_page is the event's  *)
(* currentPath if its type is ROUTE_CHANGE and is unchanged otherwise,     *)
(* active_spells is the registered spells, in registration order, whose    *)
(* ui_key is exactly "<current_page>:<type>" with "*" for an event without *)
(* a type, and the has-available-spell trigger is returned exactly when    *)
(* that list is not empty.                                                 *)
C25_ActiveSpellsMatchPageAndType ==
    [][(Len(events') > Len(events) /\ Handled(events'[Len(events')])) =>
         LET e == events'[Len(events')]
             page == lifetime'.current_page
             wanted(sp) == \/ e.type = Absent /\ sp.ui_key = page \o ":*"
                           \/ e.type # Absent /\ sp.ui_key = page \o ":" \o e.type
         IN /\ page = IF e.type = "ROUTE_CHANGE" THEN e.path
                      ELSE lifetime.current_page
            /\ lifetime'.active_spells = SelectSeq(spellbook, wanted)
            /\ (e.result = "has-available-spell") <=>
                  (lifetime'.active_spells # <<>>)
            /\ lifetime'.api_session = lifetime.api_session]_vars

C25_Witness ==
    /\ Len(events) = 2 /\ Len(spellbook) = 2
    /\ events[1].type = "ROUTE_CHANGE" /\ events[1].path = "/admin"
    /\ events[1].result = "no-trigger"
    /\ events[2].type = "LOAD" /\ events[2].result = "has-available-spell"
    /\ Len(lifetime.active_spells) = 1
    /\ lifetime.active_spells[1].name = "UserManager"

----------------------------------------------------------------------------
(* Claims about the paging of privileged users, under UsersSpec *)

RECURSIVE SumSizes(_, _)
SumSizes(sizes, n) == IF n = 0 THEN 0 ELSE sizes[n] + SumSizes(sizes, n - 1)

\* the records request i asks for
Asked(i) == {spell.offsets[i] + k : k \in 1..limit}

EndedOnPage == spell.pc = "done" /\ IsSuccess(spell.r_status)

(* C26: every request is sent with the number of user records received so  *)
(* far as its offset (0, 20, 40, ...), no record is asked for twice, a     *)
(* request follows a page only if the page was successful and full, and    *)
(* when the loop has ended on a short page user_cache is the set of the    *)
(* names of all the users returned.                                        *)
C26_PagesByRecordsReceived ==
    /\ \A i \in 1..Len(spell.offsets) :
          /\ spell.offsets[i] = SumSizes(spell.sizes, i - 1)
          /\ spell.offsets[i] = limit * (i - 1)
    /\ \A i, j \in 1..Len(spell.offsets) : i # j => Asked(i) \cap Asked(j) = {}
    /\ \A i \in 1..Len(spell.sizes) :
          i < Len(spell.offsets) => spell.sizes[i] = limit
    /\ spell.pc \in {"done", "raised"} /\ spell.sizes # <<>> =>
          \/ spell.sizes[Len(spell.sizes)] < limit
          \/ ~IsSuccess(spell.r_status)
          \/ spell.pc = "raised"
    /\ EndedOnPage =>
          /\ spell.user_cache = {NameOf(u) : u \in spell.returned}
          /\ spell.returned = 1..spell.users

====
